---- MODULE Spec2Model ----
(***************************************************************************)
(* Model of the OAuth state store (hono/src/services/state_manager.ts) and *)
(* of the GitHub / Google OAuth handlers that use it                       *)
(* (hono/src/oauth/services/github.ts, google.ts).                         *)
(*                                                                         *)
(* Tokens are the strings a caller can pass as `state`.  The strings       *)
(* crypto.randomUUID() returns are numbered 1, 2, ... in the order they    *)
(* are drawn; 0 stands for a string that is never a UUID.                  *)
(* Date.now() is a wall clock: every operation reads it as an input drawn  *)
(* from Times, forward or back of the previous reading; `now` holds the    *)
(* last reading.                                                           *)
(***************************************************************************)
EXTENDS Integers, Sequences, FiniteSets, Bags, TLC

\* ---------------------------------------------------------------- bounds
MaxCreate == 2    \* createState calls in one run
MaxRepeat == 2    \* successive lookups of one token that are counted
MaxInFlight == 1  \* callbacks awaiting a provider response at one time
MaxCallers == 2   \* requests inside the custom callback service at one time
MaxRaceCreate == 1 \* states created in one run of the custom callbacks
MaxJwt == 2       \* requests inside the JWT middleware at one time
MaxRetry == 2     \* largest retry.count an enhancedFetch call is given
MaxLoaderCalls == 2 \* startLoading / resetAndReload calls of the component
MaxRedirect == 1  \* redirects issued in one run of the handlers
MaxUpload == 2    \* handleUpload requests in one run
MaxWxCalls == 3   \* login / logout calls of the component
MaxDebounceCalls == 3    \* calls of the debounced function
MaxDebounceRenders == 2  \* renders of the component using it
MaxDebounceTime == 5     \* ticks of the clock in one run

\* ------------------------------------------------------------- constants
STATE_EXPIRATION_MS == 10 * 60 * 1000

\* The instants Date.now() is observed at: both sides of the TTL boundary of
\* an entry created at 0, and the instants of the spec's sweep scenario.
Times == {0, 500000, STATE_EXPIRATION_MS, STATE_EXPIRATION_MS + 1, 700000}

\* The instants the handlers' requests arrive at: the TTL boundary of an entry
\* created at 0 and both sides of it.
RequestTimes == {0, STATE_EXPIRATION_MS, STATE_EXPIRATION_MS + 1}

\* Payloads handed to createState, and the null getStateData returns
Null == "null"
RedirectUriData == "{redirectUri}"
Payloads == {RedirectUriData, "{from}"}

\* A string crypto.randomUUID() never returns ("nonexistent-token-xyz")
NonUUID == 0

\* c.req.query('state') when the parameter is absent or empty
Missing == -1

\* the handlers of github.ts and google.ts
Providers == {"github", "google"}

VARIABLES
  stateStore,   \* Map<string, StateData>: token -> [data, createdAt]
  now,          \* the last reading of Date.now()
  uuidCount,    \* number of crypto.randomUUID() strings drawn so far
  lastOp,       \* the last store call: its name, its token, its return
                \* value, the branch it took, and how many successful
                \* lookups of that token it ends
  issued,       \* history: token -> [data, createdAt] given at creation
  deleted,      \* history: issued tokens deleteStateData was called with
  expiredOut,   \* history: tokens a sweep removed
  lazyOut,      \* history: tokens an expired lookup removed
  console,      \* the lines the store calls of the last step wrote with
                \* console.log / console.warn, in order
  inflight,     \* callbacks suspended at an await: slot -> request or Idle
  lastCall,     \* the last handler step: handler, state parameter, HTTP
                \* status (0 while suspended) and the effects of the
                \* request so far, in program order
  accepted,     \* history: token -> number of callbacks it validated
  callers,      \* requests inside a callback service that looks the state
                \* up, awaits the provider and deletes the state afterwards:
                \* caller -> [pc, state, data]
  jwt,          \* requests inside the JWT middleware: slot -> the request's
                \* header, token, context variable and position
  ef,           \* one enhancedFetch call of a useFetchEnhanced hook: its
                \* options, locals, controllers, timer and position
  rl,           \* a component using useResourceLoader: its options, refs,
                \* React state, last render, timers and loads in flight
  up,           \* one handleUpload request: the service configuration,
                \* the form field, the position in the handler, the
                \* response, and the upload directory
  wx,           \* a component using useWXSDK: its React state, localStorage, the
                \* code parameter of the URL, and the calls in flight
  db            \* a component using useDebounceCallback: its renders, timerRef,
                \* the timers of the page, the time, and the calls made so far

storeVars == <<stateStore, now, uuidCount, lastOp, issued, deleted,
               expiredOut, lazyOut, console>>
oauthVars == <<inflight, lastCall, accepted>>
raceVars == <<callers>>
jwtVars == <<jwt>>
fetchVars == <<ef>>
loaderVars == <<rl>>
uploadVars == <<up>>
wxVars == <<wx>>
debounceVars == <<db>>
vars == <<stateStore, now, uuidCount, console, lastOp, issued, deleted,
          expiredOut, lazyOut, inflight, lastCall, accepted, callers, jwt,
          ef, rl, up, wx, db>>

\* what a step of one part of the program leaves alone
OutsideStore ==
  UNCHANGED <<oauthVars, raceVars, jwtVars, fetchVars,
              loaderVars, uploadVars, wxVars, debounceVars>>
OutsideOAuth ==
  UNCHANGED <<raceVars, jwtVars, fetchVars, loaderVars,
              uploadVars, wxVars, debounceVars>>
OutsideRace ==
  UNCHANGED <<oauthVars, jwtVars, fetchVars, loaderVars,
              uploadVars, wxVars, debounceVars>>
OutsideJwt ==
  UNCHANGED <<storeVars, oauthVars, raceVars, fetchVars,
              loaderVars, uploadVars, wxVars, debounceVars>>
OutsideFetch ==
  UNCHANGED <<storeVars, oauthVars, raceVars, jwtVars,
              loaderVars, uploadVars, wxVars, debounceVars>>
OutsideLoader ==
  UNCHANGED <<storeVars, oauthVars, raceVars, jwtVars,
              fetchVars, uploadVars, wxVars, debounceVars>>
OutsideUpload ==
  UNCHANGED <<storeVars, oauthVars, raceVars, jwtVars,
              fetchVars, loaderVars, wxVars, debounceVars>>
OutsideWx ==
  UNCHANGED <<storeVars, oauthVars, raceVars, jwtVars,
              fetchVars, loaderVars, uploadVars, debounceVars>>
OutsideDebounce ==
  UNCHANGED <<storeVars, oauthVars, raceVars, jwtVars,
              fetchVars, loaderVars, uploadVars, wxVars>>

\* ------------------------------------------------------------ the store
EmptyMap == [t \in {} |-> 0]

\* Map.prototype.has / delete / set
Has(store, state) == state \in DOMAIN store

MapDelete(store, state) == [t \in DOMAIN store \ {state} |-> store[t]]

MapSet(store, state, entry) ==
  [t \in DOMAIN store \cup {state} |-> IF t = state THEN entry ELSE store[t]]

\* Map.prototype.entries: the keys in insertion order, which is the order
\* the UUIDs were drawn in
RECURSIVE Entries(_)
Entries(keys) ==
  IF keys = {} THEN <<>>
  ELSE LET k == CHOOSE x \in keys : \A y \in keys : x <= y
       IN <<k>> \o Entries(keys \ {k})

\* (mutant) the expiry test with >= for >
IsExpiredAtTTL(entry, n) == n - entry.createdAt >= STATE_EXPIRATION_MS

\* now - stateData.createdAt > STATE_EXPIRATION_MS
IsExpired(entry, n) == n - entry.createdAt > STATE_EXPIRATION_MS

\* the for-of loop of clearExpiredStateData over the entries still to visit
RECURSIVE SweepLoop(_, _, _)
SweepLoop(store, todo, n) ==
  IF todo = <<>> THEN store
  ELSE IF IsExpired(store[Head(todo)], n)
    THEN SweepLoop(MapDelete(store, Head(todo)), Tail(todo), n)
    ELSE SweepLoop(store, Tail(todo), n)

\* (mutant) a loop that loses the entry following each one it deletes
RECURSIVE SweepLoopSkipping(_, _, _)
SweepLoopSkipping(store, todo, n) ==
  IF todo = <<>> THEN store
  ELSE IF IsExpired(store[Head(todo)], n)
    THEN SweepLoopSkipping(MapDelete(store, Head(todo)),
                           IF Len(todo) > 1 THEN Tail(Tail(todo)) ELSE <<>>,
                           n)
    ELSE SweepLoopSkipping(store, Tail(todo), n)

clearExpiredSkipping(store, n) ==
  SweepLoopSkipping(store, Entries(DOMAIN store), n)

\* clearExpiredStateData: the store after the loop, the clock reading n
clearExpiredStateData(store, n) ==
  SweepLoop(store, Entries(DOMAIN store), n)

\* (mutant) the insert also stamps every entry kept with the new createdAt
createStateTouching(store, data, n1, uuid, n2) ==
  LET kept == clearExpiredStateData(store, n1)
  IN [t \in DOMAIN kept \cup {uuid} |->
        IF t = uuid THEN [data |-> data, createdAt |-> n2]
        ELSE [data |-> kept[t].data, createdAt |-> n2]]

\* crypto.randomUUID(): a string not drawn before
randomUUID(count) == count + 1

\* (mutant) the entry is inserted without the sweep
createStateNoSweep(store, data, n1, uuid, n2) ==
  MapSet(store, uuid, [data |-> data, createdAt |-> n2])

\* createState: sweep at clock reading n1, then insert at clock reading n2
createState(store, data, n1, uuid, n2) ==
  MapSet(clearExpiredStateData(store, n1), uuid,
         [data |-> data, createdAt |-> n2])

\* (mutant) an expired entry is reported but left in the store
getStateDataKeepingExpired(store, state, n) ==
  IF ~Has(store, state)
    THEN [ret |-> Null, branch |-> "unknown", store |-> store]
    ELSE IF IsExpired(store[state], n)
      THEN [ret |-> Null, branch |-> "expired", store |-> store]
      ELSE [ret |-> store[state].data, branch |-> "found", store |-> store]

\* (mutant) a successful lookup consumes the entry
getStateDataConsuming(store, state, n) ==
  IF ~Has(store, state)
    THEN [ret |-> Null, branch |-> "unknown", store |-> store]
    ELSE IF IsExpired(store[state], n)
      THEN [ret |-> Null, branch |-> "expired",
            store |-> MapDelete(store, state)]
      ELSE [ret |-> store[state].data, branch |-> "found",
            store |-> MapDelete(store, state)]

\* (mutant) the age is read before the entry is tested for undefined
getStateDataUnguarded(store, state, n) ==
  IF ~Has(store, state)
    THEN [ret |-> "TypeError", branch |-> "throw", store |-> store]
    ELSE IF IsExpired(store[state], n)
      THEN [ret |-> Null, branch |-> "expired",
            store |-> MapDelete(store, state)]
      ELSE [ret |-> store[state].data, branch |-> "found", store |-> store]

\* (mutant) the expired branch returns undefined
getStateDataExpiredUndefined(store, state, n) ==
  IF ~Has(store, state)
    THEN [ret |-> Null, branch |-> "unknown", store |-> store]
    ELSE IF IsExpired(store[state], n)
      THEN [ret |-> "undefined", branch |-> "expired",
            store |-> MapDelete(store, state)]
      ELSE [ret |-> store[state].data, branch |-> "found", store |-> store]

\* getStateData: return value, branch taken and store afterwards
getStateData(store, state, n) ==
  IF ~Has(store, state)
    THEN [ret |-> Null, branch |-> "unknown", store |-> store]
    ELSE IF IsExpired(store[state], n)
      THEN [ret |-> Null, branch |-> "expired",
            store |-> MapDelete(store, state)]
      ELSE [ret |-> store[state].data, branch |-> "found", store |-> store]

\* (mutant) a delete of an absent key evicts the oldest entry
deleteStateDataEvicting(store, state) ==
  IF Has(store, state) \/ DOMAIN store = {} THEN MapDelete(store, state)
  ELSE MapDelete(store, Head(Entries(DOMAIN store)))

\* (mutant) the entry is left in place
deleteStateDataKeeping(store, state) == store

\* deleteStateData: store afterwards
deleteStateData(store, state) == MapDelete(store, state)

\* a console line: the method, the text before the token, the token
Line(level, text, state) == [level |-> level, text |-> text, state |-> state]

\* clearExpiredStateData: one console.log for each entry it removes
clearExpiredConsole(store, n) ==
  LET Old(t) == IsExpired(store[t], n)
      gone == SelectSeq(Entries(DOMAIN store), Old)
  IN [i \in 1 .. Len(gone) |-> Line("log", "Expired state removed", gone[i])]

\* createState: the lines of its sweep, then "State created"
createStateConsole(store, n1, uuid) ==
  clearExpiredConsole(store, n1) \o <<Line("log", "State created", uuid)>>

\* (mutant) a successful lookup is logged as well
getStateDataConsoleAll(store, state, n) ==
  IF ~Has(store, state)
    THEN <<Line("warn", "Invalid or unknown state received", state)>>
    ELSE IF IsExpired(store[state], n)
      THEN <<Line("warn", "Expired state received", state)>>
      ELSE <<Line("log", "State retrieved", state)>>

\* getStateData: console.warn in the unknown and in the expired branch
getStateDataConsole(store, state, n) ==
  IF ~Has(store, state)
    THEN <<Line("warn", "Invalid or unknown state received", state)>>
    ELSE IF IsExpired(store[state], n)
      THEN <<Line("warn", "Expired state received", state)>>
      ELSE <<>>

\* deleteStateData: console.log when it deleted, console.warn when not
deleteStateDataConsole(store, state) ==
  IF Has(store, state)
    THEN <<Line("log", "State deleted", state)>>
    ELSE <<Line("warn", "Attempted to delete non-existent state", state)>>

\* ------------------------------------------------------------- actions
\* The strings a caller can pass: every UUID drawn so far, and a string that
\* is no UUID.  A UUID not drawn yet is unguessable, so it is never passed.
Known == 0 .. uuidCount

Op(op, state, ret, branch, nth) ==
  [op |-> op, state |-> state, ret |-> ret, branch |-> branch, nth |-> nth]

Min(a, b) == IF a < b THEN a ELSE b

Idle == [pc |-> "idle", provider |-> "none", state |-> Missing]

\* ------------------------------------------------- the JWT middleware
\* strings of the Authorization header, as sequences of characters
Bearer == <<"B", "e", "a", "r", "e", "r", " ">>

\* c.req.header('Authorization'): undefined, or a string
NoHeader == [present |-> FALSE, value |-> <<>>]
Header(value) == [present |-> TRUE, value |-> value]

JwtHeaders ==
  {NoHeader, Header(<<>>), Header(Bearer), Header(Bearer \o <<"a">>),
   Header(<<"a">>), Header(Bearer \o Bearer), Header(<<"a">> \o Bearer)}

\* what verifyFn resolves with
JwtPayloads == {"{userId:1}", "{userId:2}"}

\* c.get('jwtPayload') before any c.set
JwtUnset == "unset"

\* String.prototype.replace with a string pattern: the first occurrence
replace(s, pattern, replacement) ==
  LET at == {i \in 1 .. (Len(s) - Len(pattern) + 1) :
               SubSeq(s, i, i + Len(pattern) - 1) = pattern}
  IN IF at = {} THEN s
     ELSE LET i == CHOOSE j \in at : \A k \in at : j <= k
          IN SubSeq(s, 1, i - 1) \o replacement
               \o SubSeq(s, i + Len(pattern), Len(s))

\* header?.replace('Bearer ', '')
extractToken(header) ==
  IF header.present
    THEN [present |-> TRUE, value |-> replace(header.value, Bearer, <<>>)]
    ELSE [present |-> FALSE, value |-> <<>>]

\* !token
FalsyToken(token) == ~token.present \/ token.value = <<>>

\* a slot no request is in
NoRequest ==
  [pc |-> "idle", header |-> NoHeader, token |-> NoHeader, verify |-> "none",
   payload |-> JwtUnset, jwtPayload |-> JwtUnset, seen |-> JwtUnset,
   nextCalls |-> 0, response |-> 0]

\* the middleware up to its first await: 401, or the call of verifyFn
jwtMiddlewareEntry(header) ==
  LET token == extractToken(header)
      req == [NoRequest EXCEPT !.header = header, !.token = token]
  IN IF FalsyToken(token)
       THEN [req EXCEPT !.pc = "done", !.response = 401]
       ELSE [req EXCEPT !.pc = "verifying"]

\* (mutant) a rejected token is let through to next()
jwtAfterVerifyLenient(req, outcome, payload) ==
  IF outcome = "resolve"
    THEN [req EXCEPT !.verify = "resolved", !.payload = payload,
                     !.jwtPayload = payload, !.seen = payload,
                     !.nextCalls = req.nextCalls + 1, !.pc = "inNext"]
    ELSE [req EXCEPT !.verify = "rejected",
                     !.seen = req.jwtPayload,
                     !.nextCalls = req.nextCalls + 1, !.pc = "inNext"]

\* the middleware after `await verifyFn(token)`: c.set and the call of
\* next(), or the catch and 401
jwtAfterVerify(req, outcome, payload) ==
  IF outcome = "resolve"
    THEN LET stored == [req EXCEPT !.verify = "resolved",
                                   !.payload = payload,
                                   !.jwtPayload = payload]
         IN [stored EXCEPT !.seen = stored.jwtPayload,
                           !.nextCalls = stored.nextCalls + 1,
                           !.pc = "inNext"]
    ELSE [req EXCEPT !.verify = "rejected", !.pc = "done", !.response = 401]

\* the middleware after `await next()`: it returns nothing, or the catch
\* and 401
jwtAfterNext(req, outcome) ==
  IF outcome = "resolve"
    THEN [req EXCEPT !.pc = "done"]
    ELSE [req EXCEPT !.pc = "done", !.response = 401]

\* ----------------------------------------------------- enhancedFetch
\* calls of fetch() counted in one enhancedFetch call: the counter stops
\* two above the largest retry.count
MaxAttempts == MaxRetry + 2

\* retry.delay values
Delays == {1000}

\* the retry option: absent, or {count, delay} with exponentialBackoff
\* true, false or left out
NoRetryOption ==
  [given |-> FALSE, count |-> 0, delay |-> 0, exponentialBackoff |-> "undefined"]

RetryOptions ==
  {NoRetryOption} \cup
  [given : {TRUE}, count : 0 .. MaxRetry, delay : Delays,
   exponentialBackoff : {"true", "false", "undefined"}]

\* the destructuring default of `retry`: it applies to an absent option
\* only, an option given without exponentialBackoff keeps it undefined
DefaultRetry ==
  [given |-> TRUE, count |-> 0, delay |-> 1000, exponentialBackoff |-> "true"]

retryOf(option) == IF option.given THEN option ELSE DefaultRetry

\* Math.pow(2, n)
RECURSIVE pow2(_)
pow2(n) == IF n = 0 THEN 1 ELSE 2 * pow2(n - 1)

\* retry.exponentialBackoff ? retry.delay * Math.pow(2, retryCount)
\*                          : retry.delay
retryDelay(retry, retryCount) ==
  IF retry.exponentialBackoff = "true"
    THEN retry.delay * pow2(retryCount)
    ELSE retry.delay

\* no enhancedFetch call yet; abortControllerRef.current is null (0)
NoCall ==
  [pc |-> "idle", retry |-> DefaultRetry, userMessage |-> FALSE,
   retryCount |-> 0, attempts |-> 0, controllers |-> 0, controller |-> 0,
   signal |-> 0, ref |-> 0, aborted |-> {}, timer |-> "none",
   waits |-> <<>>, lastError |-> "none", error |-> "none",
   userAborted |-> FALSE, abortedAt |-> 0]

\* createAbortController: abort the controller of the ref, if any, and put
\* a new one there
createAbortController(e) ==
  [e EXCEPT !.aborted = IF e.ref # 0 THEN e.aborted \cup {e.ref}
                        ELSE e.aborted,
            !.controllers = e.controllers + 1,
            !.ref = e.controllers + 1]

\* the head of the retry loop up to `await fetch`: the timer that aborts
\* `controller`, and the fetch with requestOptions.signal
startAttempt(e) ==
  IF e.retryCount <= e.retry.count
    THEN [e EXCEPT !.timer = "armed",
                   !.attempts = Min(e.attempts + 1, MaxAttempts),
                   !.pc = "fetching"]
    ELSE IF e.lastError # "none"
      THEN [e EXCEPT !.pc = "rejected", !.error = e.lastError]
      ELSE [e EXCEPT !.pc = "resolved"]

\* enhancedFetch from its call to the first `await fetch`
enhancedFetch(option, userMessage) ==
  LET created == createAbortController(
                   [NoCall EXCEPT !.retry = retryOf(option),
                                  !.userMessage = userMessage])
  IN startAttempt([created EXCEPT !.controller = created.ref,
                                  !.signal = created.ref])

\* the outer catch: throw on the last retry or on an AbortError, else
\* go round the loop again
outerCatch(e, error) ==
  IF e.retryCount >= e.retry.count \/ error = "AbortError"
    THEN [e EXCEPT !.pc = "rejected", !.error = error]
    ELSE startAttempt([e EXCEPT !.lastError = error])

\* the inner catch: clearTimeout, AbortError against the message of a
\* user abort, else the retry delay
innerCatch(e, error) ==
  LET cleared == [e EXCEPT !.timer = "none"]
  IN IF error = "AbortError"
       THEN IF e.userMessage
              THEN outerCatch(cleared, "AbortError")
              ELSE outerCatch(cleared, "TimeoutError")
       ELSE LET failed == [cleared EXCEPT !.lastError = error]
            IN IF e.retryCount >= e.retry.count
                 THEN outerCatch(failed, error)
                 ELSE [failed EXCEPT
                         !.waits = Append(e.waits,
                                          retryDelay(e.retry, e.retryCount)),
                         !.pc = "sleeping"]

\* the code after `await fetch`: the data, or the error in the inner catch
afterFetch(e, outcome) ==
  IF outcome = "ok"
    THEN [e EXCEPT !.timer = "none", !.pc = "resolved"]
    ELSE innerCatch(e, IF outcome = "http" THEN "HttpError"
                       ELSE IF outcome = "network" THEN "TypeError"
                       ELSE "AbortError")

\* the code after the retry delay: retryCount++, a new controller whose
\* signal the next fetch gets, and the next round of the loop
afterDelay(e) ==
  LET counted == [e EXCEPT !.retryCount = e.retryCount + 1]
      created == createAbortController(counted)
  IN startAttempt([created EXCEPT !.signal = created.ref])

\* the timer callback: controller.abort() on the controller of line 357
timeoutCallback(e) ==
  [e EXCEPT !.aborted = e.aborted \cup {e.controller}, !.timer = "fired"]

\* abort(): abort the controller of the ref and clear the ref
abort(e) ==
  IF e.ref # 0
    THEN [e EXCEPT !.aborted = e.aborted \cup {e.ref}, !.ref = 0,
                   !.userAborted = TRUE, !.abortedAt = e.attempts]
    ELSE [e EXCEPT !.userAborted = TRUE, !.abortedAt = e.attempts]

\* -------------------------------------------------- useResourceLoader
\* Resource.weight when the property is left out
NoWeight == -1

Resource(url, weight) == [url |-> url, weight |-> weight]

\* the `resources` option: lists of one or two resources, with a shared
\* url, with a weight of 0, with weights left out
ResourceLists ==
  {<<Resource("a", NoWeight)>>,
   <<Resource("a", 2), Resource("b", NoWeight)>>,
   <<Resource("a", NoWeight), Resource("a", NoWeight)>>,
   <<Resource("a", 0), Resource("b", 2)>>}

\* the `concurrency` and `retryCount` options
Concurrencies == {1, 2}
RetryCounts == {0, 1}

\* resource.weight || 1, of the total weight
WeightOrOne(resource) ==
  IF resource.weight = NoWeight \/ resource.weight = 0
    THEN 1 ELSE resource.weight

\* const { weight = 1 } = resource, of the completed weight
WeightDefault(resource) ==
  IF resource.weight = NoWeight THEN 1 ELSE resource.weight

\* resources.reduce((sum, resource) => sum + (resource.weight || 1), 0)
RECURSIVE totalWeightOf(_)
totalWeightOf(resources) ==
  IF resources = <<>> THEN 0
  ELSE WeightOrOne(Head(resources)) + totalWeightOf(Tail(resources))

\* (completedWeight / totalWeight) * 100, kept as a fraction
Fraction(num, den) == [num |-> num, den |-> den]
progressOf(completedWeight, totalWeight) ==
  Fraction(100 * completedWeight, totalWeight)

\* [...resources]: the queue holds the resources by their place in the list
AllOf(resources) == [i \in 1 .. Len(resources) |-> i]

\* the component before it is mounted: the useState and useRef initial
\* values
Unmounted ==
  [mounted |-> FALSE, resources |-> <<>>, concurrency |-> 4,
   retryCount |-> 1,
   queue |-> <<>>, loading |-> {}, completedWeight |-> 0,
   isLoading |-> FALSE, isComplete |-> FALSE, progress |-> Fraction(0, 1),
   loadedCount |-> 0, errorCount |-> 0,
   rendered |-> [isLoading |-> FALSE, isComplete |-> FALSE],
   autoStartPending |-> FALSE, reloadPending |-> 0,
   tasks |-> EmptyBag, run |-> 0,
   started |-> <<>>, okLoaded |-> {}, finished |-> {},
   onLoadedCalls |-> 0, calls |-> 0]

\* one load in flight: the resource, the attempt of loadResourceWithRetry
\* and the run (the resets so far) it was started in
Task(i, attempt, run) == [res |-> i, attempt |-> attempt, run |-> run]

\* resetState; a new run of the loader starts with it
resetState(r) ==
  [r EXCEPT !.progress = Fraction(0, 1), !.isLoading = FALSE,
            !.isComplete = FALSE, !.loadedCount = 0, !.errorCount = 0,
            !.queue = AllOf(r.resources), !.loading = {},
            !.completedWeight = 0,
            !.run = r.run + 1,
            !.started = [i \in 1 .. Len(r.resources) |-> 0],
            !.okLoaded = {}, !.finished = {}, !.onLoadedCalls = 0]

\* processResource up to its await: the url joins the loading set and the
\* load starts
processResourceStart(r, i) ==
  [r EXCEPT !.loading = r.loading \cup {r.resources[i].url},
            !.tasks = r.tasks (+) SetToBag({Task(i, 0, r.run)}),
            !.started[i] = Min(r.started[i] + 1, 2)]

\* processNextResource
processNextResource(r) ==
  IF r.queue = <<>> \/ Cardinality(r.loading) >= r.concurrency
    THEN r
    ELSE processResourceStart([r EXCEPT !.queue = Tail(r.queue)],
                              Head(r.queue))

\* for (let i = 0; i < initialBatch; i++) processNextResource()
RECURSIVE initialBatch(_, _)
initialBatch(r, n) ==
  IF n = 0 THEN r ELSE initialBatch(processNextResource(r), n - 1)

\* startLoading as created by a render that saw isLoading and isComplete
startLoading(r, isLoading, isComplete) ==
  IF isLoading \/ isComplete \/ Len(r.resources) = 0
    THEN r
    ELSE initialBatch([r EXCEPT !.isLoading = TRUE,
                                !.queue = AllOf(r.resources)],
                      Min(r.concurrency, Len(r.resources)))

\* the timer of resetAndReload
reloadTimer(r) ==
  initialBatch([r EXCEPT !.isLoading = TRUE],
               Min(r.concurrency, Len(r.resources)))

\* processResource after its await: the try or the catch part, then the
\* finally part
processResourceEnd(r, task, ok) ==
  LET i == task.res
      resource == r.resources[i]
      current == task.run = r.run
      tried ==
        IF ok
          THEN LET weight == r.completedWeight + WeightDefault(resource)
               IN [r EXCEPT
                     !.loadedCount = r.loadedCount + 1,
                     !.completedWeight = weight,
                     !.progress =
                       progressOf(weight, totalWeightOf(r.resources)),
                     !.okLoaded = IF current THEN r.okLoaded \cup {i}
                                  ELSE r.okLoaded]
          ELSE [r EXCEPT !.errorCount = r.errorCount + 1]
      removed == [tried EXCEPT
                    !.loading = tried.loading \ {resource.url},
                    !.tasks = tried.tasks (-) SetToBag({task}),
                    !.finished = IF current THEN tried.finished \cup {i}
                                 ELSE tried.finished]
      allProcessed == removed.queue = <<>> /\ removed.loading = {}
  IN IF allProcessed
       THEN [removed EXCEPT !.isLoading = FALSE, !.isComplete = TRUE,
                            !.onLoadedCalls = Min(removed.onLoadedCalls + 1, 2)]
       ELSE processNextResource(removed)

\* loadResourceWithRetry after an attempt failed or timed out: the next
\* attempt, or the last error thrown into processResource
attemptFailed(r, task) ==
  IF task.attempt < r.retryCount
    THEN [r EXCEPT !.tasks =
            (r.tasks (-) SetToBag({task}))
              (+) SetToBag({Task(task.res, task.attempt + 1, task.run)})]
    ELSE processResourceEnd(r, task, FALSE)

\* the first render and its effect: with autoStart, resetState and the
\* timer that calls this render's startLoading
mount(resources, concurrency, retryCount, autoStart) ==
  LET first == [Unmounted EXCEPT
                  !.mounted = TRUE, !.resources = resources,
                  !.concurrency = concurrency, !.retryCount = retryCount,
                  !.started = [i \in 1 .. Len(resources) |-> 0]]
  IN IF autoStart
       THEN [resetState(first) EXCEPT !.autoStartPending = TRUE]
       ELSE first

\* a caller that is not inside the callback service
Outside == [pc |-> "outside", state |-> Missing, data |-> Null]

Call(handler, state, status, log) ==
  [handler |-> handler, state |-> state, status |-> status, log |-> log]

\* ------------------------------------------------------ the upload handler
MaxSizes == {2}          \* UploadConfig.maxSize, in bytes
Sizes == 1 .. 3          \* File.size: below, at and above maxSize
Undefined == "<undefined>"   \* the value of a property a value lacks

\* String(value), as RegExp.prototype.test converts its argument
String(value) == IF value = Undefined THEN "undefined" ELSE value

\* what formData.get returns: null, a string (a text field) or a File
Entry(kind, text, type, size) ==
  [kind |-> kind, text |-> text, type |-> type, size |-> size]
Unparsed == Entry("unparsed", "", "", 0)
FormFields ==
  {Entry("null", "", "", 0), Entry("string", "", "", 0),
   Entry("string", "hello", "", 0)}
    \cup {Entry("file", "", type, size) :
            type \in {"image/png", "text/plain"}, size \in Sizes}

\* UploadConfig.allowedTypes: a list of MIME types, or a RegExp given by
\* the strings it matches among those a request can make it test
AllowedTypes ==
  {[regexp |-> FALSE, accepts |-> {"image/jpeg", "image/png", "image/gif"}],
   [regexp |-> TRUE, accepts |-> {"image/png"}],
   [regexp |-> TRUE,
    accepts |-> {"image/png", "text/plain", "undefined", ""}]}

\* file.type and file.size: a string has neither property
typeOf(file) == IF file.kind = "file" THEN file.type ELSE Undefined
\* !file
notFile(file) ==
  file.kind = "null" \/ (file.kind = "string" /\ file.text = "")

isValidType(allowedTypes, file) ==
  IF allowedTypes.regexp
    THEN String(typeOf(file)) \in allowedTypes.accepts
    ELSE typeOf(file) \in allowedTypes.accepts

\* file.size > maxSize: undefined > maxSize is false
tooLarge(file, maxSize) == file.kind = "file" /\ file.size > maxSize

NoUpload ==
  [pc |-> "idle", allowedTypes |-> [regexp |-> FALSE, accepts |-> {}],
   maxSize |-> 0, custom |-> FALSE, file |-> Unparsed, status |-> 0,
   threw |-> FALSE, files |-> 0, dirExists |-> FALSE, filesBefore |-> 0,
   dirBefore |-> FALSE, calls |-> 0]

\* return c.json(..., status)
respond(u, status) == [u EXCEPT !.pc = "done", !.status = status]
\* catch (error): return c.json({ error }, 500)
catch(u) == [respond(u, 500) EXCEPT !.threw = TRUE]

handleUpload(u, allowedTypes, maxSize, custom) ==
  [u EXCEPT !.pc = "formData", !.allowedTypes = allowedTypes,
            !.maxSize = maxSize, !.custom = custom, !.file = Unparsed,
            !.status = 0, !.threw = FALSE, !.filesBefore = u.files,
            !.dirBefore = u.dirExists, !.calls = u.calls + 1]

\* from formData.get to the call of ensureDir
afterFormData(u, file) ==
  LET v == [u EXCEPT !.file = file]
  IN  IF notFile(file) THEN respond(v, 400)
      ELSE IF ~isValidType(u.allowedTypes, file) THEN respond(v, 400)
      ELSE IF tooLarge(file, u.maxSize) THEN respond(v, 400)
      ELSE [v EXCEPT !.pc = "ensureDir"]

\* the default generateFileName reads file.name.split, and
\* file.arrayBuffer is called next: both throw a TypeError on a string
afterEnsureDir(u) ==
  LET v == [u EXCEPT !.dirExists = TRUE]
  IN  IF ~u.custom /\ u.file.kind # "file" THEN catch(v)
      ELSE IF u.file.kind # "file" THEN catch(v)
      ELSE [v EXCEPT !.pc = "arrayBuffer"]

afterArrayBuffer(u) == [u EXCEPT !.pc = "writeFile"]

afterWriteFile(u) == [respond(u, 200) EXCEPT !.files = u.files + 1]

\* -------------------------------------------------------------- useWXSDK
WxTokens == {"t1", "t2"}      \* tokens the auth endpoint or the storage holds

\* before the mount effect: the useState initial values
WxUnmounted ==
  [mounted |-> FALSE, storage |-> Null, code |-> FALSE, left |-> FALSE,
   isReady |-> "undefined", isLoggedIn |-> "undefined", token |-> Null,
   error |-> FALSE, loading |-> "undefined", initPc |-> "none",
   logins |-> 0, calls |-> 0]

\* init, up to its first await
initStart(w) ==
  [w EXCEPT !.loading = "true", !.isReady = "false", !.initPc = "pending"]

\* init, after loadSDK and getSignature: wx.config is called, or the catch
\* block runs; finally setLoading(false)
initSettled(w, ok) ==
  IF ok THEN [w EXCEPT !.loading = "false", !.initPc = "configured"]
  ELSE [w EXCEPT !.error = TRUE, !.isReady = "false", !.loading = "false",
                 !.initPc = "done"]

\* the callback given to wx.ready, or the one given to wx.error
configSettled(w, ok) ==
  IF ok THEN [w EXCEPT !.isReady = "true", !.error = FALSE,
                       !.initPc = "done"]
  ELSE [w EXCEPT !.error = TRUE, !.isReady = "false", !.initPc = "done"]

\* the mount effect
wxMount(storedToken, code, autoInit) ==
  LET w == [WxUnmounted EXCEPT
              !.mounted = TRUE, !.storage = storedToken, !.code = code,
              !.token = storedToken,
              !.isLoggedIn = IF storedToken # Null THEN "true" ELSE "false"]
  IN  IF autoInit THEN initStart(w)
      ELSE [w EXCEPT !.loading = "false", !.isReady = "false"]

\* login, up to its await: without a code parameter the page is sent to
\* the authorization page
loginStart(w) ==
  LET v == [w EXCEPT !.isLoggedIn = "false", !.calls = w.calls + 1]
  IN  IF ~w.code THEN [v EXCEPT !.left = TRUE, !.loading = "false"]
      ELSE [v EXCEPT !.loading = "true", !.logins = w.logins + 1]

\* login, after the auth endpoint answered with a token (data.code === 0
\* && data.token), or after it answered otherwise or the fetch failed
loginSettled(w, token) ==
  LET v == [w EXCEPT !.logins = w.logins - 1, !.loading = "false"]
  IN  IF token # Null
        THEN [v EXCEPT !.storage = token, !.token = token,
                       !.isLoggedIn = "true", !.code = FALSE]
        ELSE [v EXCEPT !.error = TRUE, !.isLoggedIn = "false"]

logout(w) ==
  [w EXCEPT !.storage = Null, !.token = Null, !.isLoggedIn = "false",
            !.calls = w.calls + 1]

\* ---------------------------------------------------- useDebounceCallback
DebounceDelays == {1, 2}    \* the delay argument, in ticks of the clock
DebounceArgs == {"x", "y"}  \* the arguments of a call

\* before the first render; timerRef 0 is useRef(null), and timer ids are
\* positive
NoDebounce ==
  [renders |-> 0, delay |-> 0, timerRef |-> 0, timerCount |-> 0,
   timers |-> {}, clock |-> 0, calls |-> <<>>, invoked |-> <<>>]

\* a render: the hook is called with a new fn and a delay, useRef returns
\* the same object
useDebounceCallback(d, delay) ==
  [d EXCEPT !.renders = d.renders + 1, !.delay = delay]

clearTimeoutNever(timers, id) == timers
\* clearTimeout(id): the timer, if still pending, is dropped
clearTimeout(timers, id) == {t \in timers : t.id # id}

\* setTimeout(() => fn(...args), delay): the new timer, with the closure's
\* fn and args
setTimeout(d, args) ==
  [id |-> d.timerCount + 1, due |-> d.clock + d.delay, args |-> args,
   fn |-> d.renders, call |-> Len(d.calls) + 1]

\* the function the last render returned, called with args
debounced(d, args) ==
  LET pending == IF d.timerRef # 0 THEN clearTimeout(d.timers, d.timerRef)
                 ELSE d.timers
      timer == setTimeout(d, args)
  IN  [d EXCEPT !.timers = pending \cup {timer},
                !.timerRef = timer.id,
                !.timerCount = timer.id,
                !.calls = Append(d.calls, [time |-> d.clock, args |-> args,
                                           delay |-> d.delay,
                                           fn |-> d.renders])]

\* a timer fires: fn(...args)
timerFires(d, timer) ==
  [d EXCEPT !.timers = d.timers \ {timer},
            !.invoked = Append(d.invoked, [time |-> d.clock,
                                           args |-> timer.args,
                                           fn |-> timer.fn,
                                           call |-> timer.call])]

Init ==
  /\ stateStore = EmptyMap
  /\ now = 0
  /\ uuidCount = 0
  /\ lastOp = Op("none", NonUUID, Null, "none", 0)
  /\ issued = EmptyMap
  /\ deleted = {}
  /\ expiredOut = {}
  /\ lazyOut = {}
  /\ console = <<>>
  /\ callers = [c \in 1 .. MaxCallers |-> Outside]
  /\ jwt = [r \in 1 .. MaxJwt |-> NoRequest]
  /\ ef = NoCall
  /\ rl = Unmounted
  /\ db = NoDebounce
  /\ wx = WxUnmounted
  /\ up = NoUpload
  /\ inflight = [i \in 1 .. MaxInFlight |-> Idle]
  /\ lastCall = Call("none", Missing, 0, <<>>)
  /\ accepted = EmptyMap

\* a clearExpiredStateData call: its effect on the store, the console and
\* the histories
ClearExpiredStep(n) ==
  /\ now' = n
  /\ stateStore' = clearExpiredStateData(stateStore, n)
  /\ console' = clearExpiredConsole(stateStore, n)
  /\ expiredOut' = expiredOut \cup (DOMAIN stateStore \ DOMAIN stateStore')
  /\ lastOp' = Op("sweep", NonUUID, Null, "none", 0)
  /\ UNCHANGED <<uuidCount, issued, deleted, lazyOut>>

CallClearExpired(n) ==
  /\ ClearExpiredStep(n)
  /\ OutsideStore

\* a createState call: its effect on the store and on the histories
CreateStateStep(data, n1, n2) ==
  /\ uuidCount < MaxCreate
  /\ LET uuid == randomUUID(uuidCount)
     IN /\ stateStore' = createState(stateStore, data, n1, uuid, n2)
        /\ console' = createStateConsole(stateStore, n1, uuid)
        /\ now' = n2
        /\ uuidCount' = uuidCount + 1
        /\ issued' = MapSet(issued, uuid, [data |-> data, createdAt |-> n2])
        /\ expiredOut' = expiredOut \cup
             (DOMAIN stateStore \ DOMAIN clearExpiredStateData(stateStore, n1))
        /\ lastOp' = Op("create", uuid, uuid, "none", 0)
  /\ UNCHANGED <<deleted, lazyOut>>

CallCreateState(data, n1, n2) ==
  /\ CreateStateStep(data, n1, n2)
  /\ OutsideStore

\* a getStateData call: its effect on the store, the console and the
\* histories
GetStateStep(state, n) ==
  /\ now' = n
  /\ console' = getStateDataConsole(stateStore, state, n)
  /\ LET r == getStateData(stateStore, state, n)
         again == /\ lastOp.op = "get"
                  /\ lastOp.state = state
                  /\ lastOp.branch = "found"
     IN /\ stateStore' = r.store
        /\ lazyOut' = IF r.branch = "expired"
                        THEN lazyOut \cup {state} ELSE lazyOut
        /\ lastOp' = Op("get", state, r.ret, r.branch,
                        IF r.branch # "found" THEN 0
                        ELSE IF again THEN Min(lastOp.nth + 1, MaxRepeat)
                        ELSE 1)
  /\ UNCHANGED <<uuidCount, issued, deleted, expiredOut>>

CallGetStateData(state, n) ==
  /\ GetStateStep(state, n)
  /\ OutsideStore

\* a deleteStateData call: its effect on the store, the console and the
\* histories
DeleteStateStep(state) ==
  /\ stateStore' = deleteStateData(stateStore, state)
  /\ console' = deleteStateDataConsole(stateStore, state)
  /\ deleted' = deleted \cup ({state} \cap DOMAIN issued)
  /\ lastOp' = Op("delete", state, Null,
                  IF Has(stateStore, state) THEN "deleted" ELSE "absent", 0)
  /\ UNCHANGED <<now, uuidCount, issued, expiredOut, lazyOut>>

CallDeleteStateData(state) ==
  /\ DeleteStateStep(state)
  /\ OutsideStore

Next ==
  \/ \E n \in Times : CallClearExpired(n)
  \/ \E data \in Payloads, n1 \in Times, n2 \in Times :
       CallCreateState(data, n1, n2)
  \/ \E state \in Known, n \in Times : CallGetStateData(state, n)
  \/ \E state \in Known : CallDeleteStateData(state)

Spec == Init /\ [][Next]_vars

\* --------------------------------------------------- the OAuth handlers
\* !storedStateData
Falsy(ret) == ret = Null

\* (mutant) only undefined is rejected, so the null of getStateData passes
callbackEntryNullPasses(store, hasCode, state, envComplete, n) ==
  IF ~hasCode \/ state = Missing
    THEN [status |-> 400, store |-> store, log |-> <<"respond">>,
          validated |-> FALSE, branch |-> "none"]
  ELSE LET r == getStateData(store, state, n)
       IN IF ~envComplete
            THEN [status |-> 500,
                  store |-> deleteStateData(r.store, state),
                  log |-> <<"getStateData", "deleteStateData", "envCheck",
                            "respond">>,
                  validated |-> TRUE, branch |-> r.branch]
          ELSE [status |-> 0,
                store |-> deleteStateData(r.store, state),
                log |-> <<"getStateData", "deleteStateData", "envCheck",
                          "fetchToken">>,
                validated |-> TRUE, branch |-> r.branch]

\* (mutant) the state is deleted after the environment check
callbackEntryLateDelete(store, hasCode, state, envComplete, n) ==
  IF ~hasCode \/ state = Missing
    THEN [status |-> 400, store |-> store, log |-> <<"respond">>,
          validated |-> FALSE, branch |-> "none"]
  ELSE LET r == getStateData(store, state, n)
       IN IF Falsy(r.ret)
            THEN [status |-> 401, store |-> r.store,
                  log |-> <<"getStateData", "respond">>,
                  validated |-> FALSE, branch |-> r.branch]
          ELSE IF ~envComplete
            THEN [status |-> 500, store |-> r.store,
                  log |-> <<"getStateData", "envCheck", "respond">>,
                  validated |-> TRUE, branch |-> r.branch]
          ELSE [status |-> 0,
                store |-> deleteStateData(r.store, state),
                log |-> <<"getStateData", "envCheck", "deleteStateData",
                          "fetchToken">>,
                validated |-> TRUE, branch |-> r.branch]

\* (mutant) the validated state is never deleted
callbackEntryNoDelete(store, hasCode, state, envComplete, n) ==
  IF ~hasCode \/ state = Missing
    THEN [status |-> 400, store |-> store, log |-> <<"respond">>,
          validated |-> FALSE, branch |-> "none"]
  ELSE LET r == getStateData(store, state, n)
       IN IF Falsy(r.ret)
            THEN [status |-> 401, store |-> r.store,
                  log |-> <<"getStateData", "respond">>,
                  validated |-> FALSE, branch |-> r.branch]
          ELSE IF ~envComplete
            THEN [status |-> 500, store |-> r.store,
                  log |-> <<"getStateData", "deleteStateData", "envCheck",
                            "respond">>,
                  validated |-> TRUE, branch |-> r.branch]
          ELSE [status |-> 0, store |-> r.store,
                log |-> <<"getStateData", "deleteStateData", "envCheck",
                          "fetchToken">>,
                validated |-> TRUE, branch |-> r.branch]

\* handleGithubCallback / handleGoogleCallback up to their first await:
\* the HTTP status (0: suspended at the token request), the store afterwards,
\* the effects in program order, whether the state passed validation and
\* which branch getStateData took
callbackEntry(store, hasCode, state, envComplete, n) ==
  IF ~hasCode
    THEN [status |-> 400, store |-> store, log |-> <<"respond">>,
          validated |-> FALSE, branch |-> "none"]
  ELSE IF state = Missing
    THEN [status |-> 400, store |-> store, log |-> <<"respond">>,
          validated |-> FALSE, branch |-> "none"]
  ELSE LET r == getStateData(store, state, n)
       IN IF Falsy(r.ret)
            THEN [status |-> 401, store |-> r.store,
                  log |-> <<"getStateData", "respond">>,
                  validated |-> FALSE, branch |-> r.branch]
          ELSE IF ~envComplete
            THEN [status |-> 500,
                  store |-> deleteStateData(r.store, state),
                  log |-> <<"getStateData", "deleteStateData", "envCheck",
                            "respond">>,
                  validated |-> TRUE, branch |-> r.branch]
          ELSE [status |-> 0,
                store |-> deleteStateData(r.store, state),
                log |-> <<"getStateData", "deleteStateData", "envCheck",
                          "fetchToken">>,
                validated |-> TRUE, branch |-> r.branch]

FreeSlots == {i \in 1 .. MaxInFlight : inflight[i] = Idle}

Count(t) == IF t \in DOMAIN accepted THEN accepted[t] ELSE 0

\* (mutant) the redirect creates the state but leaves it out of the URL
RedirectWithoutState(provider, configured, n1, n2) ==
  IF ~configured
    THEN /\ lastCall' = Call(provider \o "Redirect", Missing, 500,
                             <<"respond">>)
         /\ UNCHANGED <<storeVars, inflight, accepted>>
         /\ OutsideOAuth
    ELSE /\ uuidCount < MaxRedirect
         /\ CreateStateStep(RedirectUriData, n1, n2)
         /\ UNCHANGED <<inflight, accepted>>
         /\ OutsideOAuth
         /\ lastCall' = Call(provider \o "Redirect", Missing, 302,
                             <<"createState", "respond">>)

\* getGithubRedirectUrl / getGoogleRedirectUrl.  The UUID is made of hex
\* digits and hyphens, which URLSearchParams.toString leaves as they are.
Redirect(provider, configured, n1, n2) ==
  IF ~configured
    THEN /\ lastCall' = Call(provider \o "Redirect", Missing, 500,
                             <<"respond">>)
         /\ UNCHANGED <<storeVars, inflight, accepted>>
         /\ OutsideOAuth
    ELSE /\ uuidCount < MaxRedirect
         /\ CreateStateStep(RedirectUriData, n1, n2)
         /\ UNCHANGED <<inflight, accepted>>
         /\ OutsideOAuth
         /\ lastCall' = Call(provider \o "Redirect", lastOp'.ret, 302,
                             <<"createState", "respond">>)

\* a callback request arrives and runs to its first await or to its response
Callback(provider, hasCode, state, envComplete, n) ==
  LET e == callbackEntry(stateStore, hasCode, state, envComplete, n)
      called == Len(e.log) > 1
  IN /\ e.status = 0 => FreeSlots # {}
     /\ stateStore' = e.store
     /\ now' = IF called THEN n ELSE now
     /\ lazyOut' = IF e.branch = "expired"
                     THEN lazyOut \cup {state} ELSE lazyOut
     /\ deleted' = IF e.validated THEN deleted \cup {state} ELSE deleted
     /\ accepted' = IF e.validated
                      THEN MapSet(accepted, state, Min(Count(state) + 1, 2))
                      ELSE accepted
     /\ lastOp' = IF ~called THEN lastOp
                  ELSE IF e.validated
                    THEN Op("delete", state, Null,
                            IF Has(getStateData(stateStore, state, n).store,
                                   state)
                              THEN "deleted" ELSE "absent", 0)
                  ELSE Op("get", state, Null, e.branch, 0)
     /\ inflight' = IF e.status = 0
                      THEN [inflight EXCEPT
                              ![CHOOSE i \in FreeSlots :
                                  \A j \in FreeSlots : i <= j] =
                                [pc |-> "awaitToken", provider |-> provider,
                                 state |-> state]]
                      ELSE inflight
     /\ lastCall' = Call(provider \o "Callback", state, e.status, e.log)
     /\ console' =
          IF ~called THEN console
          ELSE getStateDataConsole(stateStore, state, n) \o
               (IF e.validated
                  THEN deleteStateDataConsole(
                         getStateData(stateStore, state, n).store, state)
                  ELSE <<>>)
     /\ UNCHANGED <<uuidCount, issued, expiredOut>>
     /\ OutsideOAuth

\* the effects of a suspended request so far
LogAt(pc) ==
  LET entry == <<"getStateData", "deleteStateData", "envCheck",
                 "fetchToken">>
  IN IF pc = "awaitToken" THEN entry
     ELSE IF pc = "awaitUser" THEN entry \o <<"fetchUser">>
     ELSE entry \o <<"fetchUser", "fetchEmails">>

Finish(i, status, log) ==
  /\ inflight' = [inflight EXCEPT ![i] = Idle]
  /\ lastCall' = Call(inflight[i].provider \o "Callback", inflight[i].state,
                      status, log \o <<"respond">>)

Suspend(i, pc) ==
  /\ inflight' = [inflight EXCEPT ![i].pc = pc]
  /\ lastCall' = Call(inflight[i].provider \o "Callback", inflight[i].state,
                      0, LogAt(pc))

\* the token endpoint answered: fetch threw, status not ok, no access_token
\* in the body, or an access token
TokenResponse(i, outcome) ==
  /\ inflight[i].pc = "awaitToken"
  /\ IF outcome = "ok"
       THEN Suspend(i, "awaitUser")
       ELSE Finish(i, 500, LogAt("awaitToken"))
  /\ UNCHANGED <<storeVars, accepted>>
  /\ OutsideOAuth

\* the user-info endpoint answered; GitHub users without a public email
\* need the /user/emails request
UserResponse(i, outcome) ==
  /\ inflight[i].pc = "awaitUser"
  /\ IF outcome = "ok"
       THEN Finish(i, 200, LogAt("awaitUser"))
     ELSE IF outcome = "okNoEmail"
       THEN IF inflight[i].provider = "github"
              THEN Suspend(i, "awaitEmails")
              ELSE Finish(i, 200, LogAt("awaitUser"))
     ELSE Finish(i, 500, LogAt("awaitUser"))
  /\ UNCHANGED <<storeVars, accepted>>
  /\ OutsideOAuth

\* /user/emails answered or threw: both are survived, and the response is
\* 200 unless githubUser.id is undefined, where id.toString() throws into
\* the outer catch
EmailsResponse(i, outcome) ==
  /\ inflight[i].pc = "awaitEmails"
  /\ IF outcome = "noId"
       THEN Finish(i, 500, LogAt("awaitEmails"))
       ELSE Finish(i, 200, LogAt("awaitEmails"))
  /\ UNCHANGED <<storeVars, accepted>>
  /\ OutsideOAuth

EmailOutcomes == {"ok", "notOk", "throw", "noId"}

Outcomes == {"ok", "okNoEmail", "notOk", "throw"}

\* a request that is answered before it reads the clock or the environment
\* check is reached is listed once, not once for each value of those inputs
NextOAuth ==
  \/ \E p \in Providers, n1 \in RequestTimes, n2 \in RequestTimes :
       Redirect(p, TRUE, n1, n2)
  \/ \E p \in Providers : Redirect(p, FALSE, now, now)
  \/ \E p \in Providers, state \in Known, envComplete \in BOOLEAN,
        n \in RequestTimes :
       Callback(p, TRUE, state, envComplete, n)
  \/ \E p \in Providers, hasCode \in BOOLEAN :
       Callback(p, hasCode, Missing, TRUE, now)
  \/ \E p \in Providers, state \in Known :
       Callback(p, FALSE, state, TRUE, now)
  \/ \E i \in 1 .. MaxInFlight, o \in Outcomes : TokenResponse(i, o)
  \/ \E i \in 1 .. MaxInFlight, o \in Outcomes : UserResponse(i, o)
  \/ \E i \in 1 .. MaxInFlight, o \in EmailOutcomes : EmailsResponse(i, o)
  \/ \E n \in RequestTimes : CallClearExpired(n)

SpecOAuth == Init /\ [][NextOAuth]_vars

\* ====================================== a callback service written by hand
\* The callback service of the example in types.ts: it looks the state up,
\* awaits the provider, and deletes the state only afterwards. The await
\* lets other requests run between its getStateData and its deleteStateData.

\* a redirect of this run creates a state
RaceCreate(n1, n2) ==
  /\ uuidCount < MaxRaceCreate
  /\ CreateStateStep(RedirectUriData, n1, n2)
  /\ UNCHANGED callers
  /\ OutsideRace

\* caller c enters the service with `state`: getStateData, and either the
\* error response or the await
CallerGet(c, state, n) ==
  /\ callers[c].pc = "outside"
  /\ GetStateStep(state, n)
  /\ callers' = IF Falsy(lastOp'.ret)
                  THEN callers
                  ELSE [callers EXCEPT ![c] = [pc |-> "processing",
                                               state |-> state,
                                               data |-> lastOp'.ret]]
  /\ OutsideRace

\* caller c's await is over: deleteStateData and the response
CallerDelete(c) ==
  /\ callers[c].pc = "processing"
  /\ DeleteStateStep(callers[c].state)
  /\ callers' = [callers EXCEPT ![c] = Outside]
  /\ OutsideRace

NextRace ==
  \/ \E n1 \in RequestTimes, n2 \in RequestTimes : RaceCreate(n1, n2)
  \/ \E c \in 1 .. MaxCallers, state \in Known, n \in RequestTimes :
       CallerGet(c, state, n)
  \/ \E c \in 1 .. MaxCallers : CallerDelete(c)
  \/ \E n \in RequestTimes : CallClearExpired(n)

SpecRace == Init /\ [][NextRace]_vars

\* ============================================= requests in the middleware
\* a request enters the middleware in a free slot
JwtEnter(r, header) ==
  /\ jwt[r].pc \in {"idle", "done"}
  /\ jwt' = [jwt EXCEPT ![r] = jwtMiddlewareEntry(header)]
  /\ OutsideJwt

\* verifyFn settles
JwtVerified(r, outcome, payload) ==
  /\ jwt[r].pc = "verifying"
  /\ jwt' = [jwt EXCEPT ![r] = jwtAfterVerify(jwt[r], outcome, payload)]
  /\ OutsideJwt

\* next() settles
JwtNextSettled(r, outcome) ==
  /\ jwt[r].pc = "inNext"
  /\ jwt' = [jwt EXCEPT ![r] = jwtAfterNext(jwt[r], outcome)]
  /\ OutsideJwt

NextJwt ==
  \/ \E r \in 1 .. MaxJwt, header \in JwtHeaders : JwtEnter(r, header)
  \/ \E r \in 1 .. MaxJwt, payload \in JwtPayloads :
       JwtVerified(r, "resolve", payload)
  \/ \E r \in 1 .. MaxJwt : JwtVerified(r, "reject", JwtUnset)
  \/ \E r \in 1 .. MaxJwt, outcome \in {"resolve", "reject"} :
       JwtNextSettled(r, outcome)

SpecJwt == Init /\ [][NextJwt]_vars

\* ================================================= an enhancedFetch call
\* the component calls enhancedFetch; userMessage says whether the runtime
\* words its AbortError 'The user aborted a request.'
EfCall(option, userMessage) ==
  /\ ef.pc = "idle"
  /\ ef' = enhancedFetch(option, userMessage)
  /\ OutsideFetch

\* the pending fetch settles: with an AbortError when its signal is
\* aborted, else with a response or a network error
EfFetchSettles(outcome) ==
  /\ ef.pc = "fetching"
  /\ (outcome = "abort") <=> (ef.signal \in ef.aborted)
  /\ ef' = afterFetch(ef, outcome)
  /\ OutsideFetch

\* the retry delay is over
EfDelayOver ==
  /\ ef.pc = "sleeping"
  /\ ef' = afterDelay(ef)
  /\ OutsideFetch

\* `timeout` ms have passed since the attempt started and it is pending
EfTimeout ==
  /\ ef.pc = "fetching"
  /\ ef.timer = "armed"
  /\ ef' = timeoutCallback(ef)
  /\ OutsideFetch

\* the component calls abort() while the call is in flight
EfAbort ==
  /\ ef.pc \in {"fetching", "sleeping"}
  /\ ~ef.userAborted
  /\ ef' = abort(ef)
  /\ OutsideFetch

NextFetch ==
  \/ \E option \in RetryOptions, userMessage \in BOOLEAN :
       EfCall(option, userMessage)
  \/ \E outcome \in {"ok", "http", "network", "abort"} :
       EfFetchSettles(outcome)
  \/ EfDelayOver
  \/ EfTimeout
  \/ EfAbort

SpecFetch == Init /\ [][NextFetch]_vars

\* ============================================ a resource loader component
RlMount(resources, concurrency, retryCount, autoStart) ==
  /\ ~rl.mounted
  /\ rl' = mount(resources, concurrency, retryCount, autoStart)
  /\ OutsideLoader

\* the timer of the mount effect calls the first render's startLoading,
\* which saw isLoading = false and isComplete = false
RlAutoStart ==
  /\ rl.autoStartPending
  /\ rl' = startLoading([rl EXCEPT !.autoStartPending = FALSE], FALSE, FALSE)
  /\ OutsideLoader

\* React renders the component again: its callbacks now see the state
RlRender ==
  /\ rl.mounted
  /\ rl.rendered # [isLoading |-> rl.isLoading, isComplete |-> rl.isComplete]
  /\ rl' = [rl EXCEPT !.rendered = [isLoading |-> rl.isLoading,
                                    isComplete |-> rl.isComplete]]
  /\ OutsideLoader

\* the component calls the startLoading of its last render
RlStartLoading ==
  /\ rl.mounted
  /\ rl.calls < MaxLoaderCalls
  /\ rl' = startLoading([rl EXCEPT !.calls = rl.calls + 1],
                        rl.rendered.isLoading, rl.rendered.isComplete)
  /\ OutsideLoader

\* the component calls resetAndReload: resetState now, the rest in 50 ms
RlResetAndReload ==
  /\ rl.mounted
  /\ rl.calls < MaxLoaderCalls
  /\ rl' = [resetState(rl) EXCEPT !.calls = rl.calls + 1,
                                  !.reloadPending = rl.reloadPending + 1]
  /\ OutsideLoader

RlReloadTimer ==
  /\ rl.reloadPending > 0
  /\ rl' = reloadTimer([rl EXCEPT !.reloadPending = rl.reloadPending - 1])
  /\ OutsideLoader

\* an attempt of a load in flight succeeds
RlLoaded(task) ==
  /\ BagIn(task, rl.tasks)
  /\ rl' = processResourceEnd(rl, task, TRUE)
  /\ OutsideLoader

\* an attempt of a load in flight fails or times out
RlFailed(task) ==
  /\ BagIn(task, rl.tasks)
  /\ rl' = attemptFailed(rl, task)
  /\ OutsideLoader

NextLoader ==
  \/ \E resources \in ResourceLists, concurrency \in Concurrencies,
        retryCount \in RetryCounts, autoStart \in BOOLEAN :
       RlMount(resources, concurrency, retryCount, autoStart)
  \/ RlAutoStart
  \/ RlRender
  \/ RlStartLoading
  \/ RlResetAndReload
  \/ RlReloadTimer
  \/ \E task \in BagToSet(rl.tasks) : RlLoaded(task)
  \/ \E task \in BagToSet(rl.tasks) : RlFailed(task)

SpecLoader == Init /\ [][NextLoader]_vars

\* ================================================== an upload request
UpCall(allowedTypes, maxSize, custom) ==
  /\ up.pc \in {"idle", "done"}
  /\ up.calls < MaxUpload
  /\ up' = handleUpload(up, allowedTypes, maxSize, custom)
  /\ OutsideUpload

\* the body is not form data
UpFormDataRejects ==
  /\ up.pc = "formData"
  /\ up' = catch(up)
  /\ OutsideUpload

UpFormDataResolves(file) ==
  /\ up.pc = "formData"
  /\ up' = afterFormData(up, file)
  /\ OutsideUpload

UpEnsureDirResolves ==
  /\ up.pc = "ensureDir"
  /\ up' = afterEnsureDir(up)
  /\ OutsideUpload

UpEnsureDirRejects ==
  /\ up.pc = "ensureDir"
  /\ up' = catch(up)
  /\ OutsideUpload

UpArrayBufferResolves ==
  /\ up.pc = "arrayBuffer"
  /\ up' = afterArrayBuffer(up)
  /\ OutsideUpload

UpWriteFileResolves ==
  /\ up.pc = "writeFile"
  /\ up' = afterWriteFile(up)
  /\ OutsideUpload

UpWriteFileRejects ==
  /\ up.pc = "writeFile"
  /\ up' = catch(up)
  /\ OutsideUpload

NextUpload ==
  \/ \E allowedTypes \in AllowedTypes, maxSize \in MaxSizes,
        custom \in BOOLEAN : UpCall(allowedTypes, maxSize, custom)
  \/ UpFormDataRejects
  \/ \E file \in FormFields : UpFormDataResolves(file)
  \/ UpEnsureDirResolves
  \/ UpEnsureDirRejects
  \/ UpArrayBufferResolves
  \/ UpWriteFileResolves
  \/ UpWriteFileRejects

SpecUpload == Init /\ [][NextUpload]_vars

\* ============================================= a component using useWXSDK
WxMount(storedToken, code, autoInit) ==
  /\ ~wx.mounted
  /\ wx' = wxMount(storedToken, code, autoInit)
  /\ OutsideWx

WxInitSettles(ok) ==
  /\ wx.initPc = "pending"
  /\ ~wx.left
  /\ wx' = initSettled(wx, ok)
  /\ OutsideWx

WxConfigSettles(ok) ==
  /\ wx.initPc = "configured"
  /\ ~wx.left
  /\ wx' = configSettled(wx, ok)
  /\ OutsideWx

WxLogin ==
  /\ wx.mounted
  /\ ~wx.left
  /\ wx.calls < MaxWxCalls
  /\ wx' = loginStart(wx)
  /\ OutsideWx

WxLoginSettles(token) ==
  /\ wx.logins > 0
  /\ ~wx.left
  /\ wx' = loginSettled(wx, token)
  /\ OutsideWx

WxLogout ==
  /\ wx.mounted
  /\ ~wx.left
  /\ wx.calls < MaxWxCalls
  /\ wx' = logout(wx)
  /\ OutsideWx

NextWx ==
  \/ \E storedToken \in WxTokens \cup {Null}, code \in BOOLEAN,
        autoInit \in BOOLEAN : WxMount(storedToken, code, autoInit)
  \/ \E ok \in BOOLEAN : WxInitSettles(ok)
  \/ \E ok \in BOOLEAN : WxConfigSettles(ok)
  \/ WxLogin
  \/ \E token \in WxTokens \cup {Null} : WxLoginSettles(token)
  \/ WxLogout

SpecWx == Init /\ [][NextWx]_vars

\* ================================== a component using useDebounceCallback
DbRender(delay) ==
  /\ db.renders < MaxDebounceRenders
  /\ db' = useDebounceCallback(db, delay)
  /\ OutsideDebounce

DbCall(args) ==
  /\ db.renders > 0
  /\ Len(db.calls) < MaxDebounceCalls
  /\ db' = debounced(db, args)
  /\ OutsideDebounce

\* time passes, up to the next timer that is due
DbTick ==
  /\ db.clock < MaxDebounceTime
  /\ \A t \in db.timers : t.due > db.clock
  /\ db' = [db EXCEPT !.clock = db.clock + 1]
  /\ OutsideDebounce

DbTimer(timer) ==
  /\ timer \in db.timers
  /\ timer.due <= db.clock
  /\ db' = timerFires(db, timer)
  /\ OutsideDebounce

NextDebounce ==
  \/ \E delay \in DebounceDelays : DbRender(delay)
  \/ \E args \in DebounceArgs : DbCall(args)
  \/ DbTick
  \/ \E timer \in db.timers : DbTimer(timer)

SpecDebounce == Init /\ [][NextDebounce]_vars

\* ================================================================ claims
LastGet == lastOp.op = "get"

\* the age the last lookup saw for the entry created under token t
AgeAtLastRead(t) == now - issued[t].createdAt

\* C1 as stated: a lookup of an issued token that deleteStateData was never
\* called with, at a clock reading within the TTL of its creation, returns
\* the payload it was created with.
C1_RoundTripAsStated ==
  (/\ LastGet
   /\ lastOp.state \in DOMAIN issued
   /\ lastOp.state \notin deleted
   /\ AgeAtLastRead(lastOp.state) <= STATE_EXPIRATION_MS)
  => lastOp.ret = issued[lastOp.state].data

\* C1 amended: the same, provided no sweep and no lookup of the token ran in
\* between at a clock reading past createdAt + TTL (the clock can be set
\* forward and back again).
C1_RoundTrip ==
  [][\A state \in Known, n \in Times :
       (/\ CallGetStateData(state, n)
        /\ state \in DOMAIN issued
        /\ state \notin deleted
        /\ state \notin expiredOut \cup lazyOut
        /\ n - issued[state].createdAt <= STATE_EXPIRATION_MS)
       => /\ lastOp'.ret = issued[state].data
          /\ lastOp'.branch = "found"]_vars

\* C1 witness: a lookup exactly at the TTL boundary returns the payload while
\* another entry with another payload is in the store.
C1_Witness ==
  /\ LastGet
  /\ lastOp.state \in DOMAIN issued
  /\ lastOp.state \notin deleted
  /\ AgeAtLastRead(lastOp.state) = STATE_EXPIRATION_MS
  /\ lastOp.ret = issued[lastOp.state].data
  /\ \E u \in DOMAIN stateStore :
       /\ u # lastOp.state
       /\ stateStore[u].data # lastOp.ret

\* C2 (consumption): a lookup of a token that deleteStateData has been called
\* with returns null, whatever happened in between and whatever the clock
\* reads.
C2_Consumption ==
  (LastGet /\ lastOp.state \in deleted)
  => /\ lastOp.ret = Null
     /\ lastOp.branch = "unknown"
     /\ lastOp.state \notin DOMAIN stateStore

\* C2 witness: a deleted token is looked up within its TTL, after a later
\* createState, and is not found.
C2_Witness ==
  /\ LastGet
  /\ lastOp.state \in deleted
  /\ lastOp.state \notin expiredOut \cup lazyOut
  /\ AgeAtLastRead(lastOp.state) <= STATE_EXPIRATION_MS
  /\ lastOp.ret = Null
  /\ \E u \in DOMAIN stateStore : u > lastOp.state

\* C3 (expiry): a lookup at a clock reading past createdAt + TTL returns null
\* and leaves the token out of the store; once an expired lookup has removed
\* a token, every later lookup of it returns null, also at a clock reading
\* back inside the TTL window.
C3_Expiry ==
  (/\ LastGet
   /\ lastOp.state \in DOMAIN issued
   /\ \/ AgeAtLastRead(lastOp.state) > STATE_EXPIRATION_MS
      \/ lastOp.state \in lazyOut)
  => /\ lastOp.ret = Null
     /\ lastOp.state \notin DOMAIN stateStore

\* C3 witness: the only entry was removed by an expired lookup, the clock was
\* set back inside the window, the token was looked up again and not found,
\* and the store holds no entry.
C3_Witness ==
  /\ LastGet
  /\ lastOp.state \in lazyOut
  /\ lastOp.state \notin deleted
  /\ AgeAtLastRead(lastOp.state) <= STATE_EXPIRATION_MS
  /\ lastOp.ret = Null
  /\ lastOp.branch = "unknown"
  /\ DOMAIN issued = {lastOp.state}
  /\ stateStore = EmptyMap

\* the entries of `before` a sweep at clock reading n must keep
Unexpired(before, n) ==
  {t \in DOMAIN before : n - before[t].createdAt <= STATE_EXPIRATION_MS}

\* `after` is `before` without exactly the entries older than TTL at n
SweptExactly(before, after, n) ==
  /\ DOMAIN after = Unexpired(before, n)
  /\ \A t \in DOMAIN after : after[t] = before[t]

\* C8 (sweep correctness): clearExpiredStateData, called directly or at the
\* start of createState, removes exactly the entries with
\* now - createdAt > TTL and keeps every other entry with its payload and
\* createdAt.
C8_SweepExact ==
  [][/\ \A n \in Times :
          CallClearExpired(n) => SweptExactly(stateStore, stateStore', n)
     /\ \A data \in Payloads, n1 \in Times, n2 \in Times :
          CallCreateState(data, n1, n2)
          => SweptExactly(stateStore,
                          MapDelete(stateStore', lastOp'.state), n1)]_vars

\* C8 witness: entries created at 0 and 500000, a sweep at 700000: the first
\* is gone, the second is retrievable.
C8_Witness ==
  /\ lastOp.op = "sweep"
  /\ now = 700000
  /\ DOMAIN issued = {1, 2}
  /\ issued[1].createdAt = 0
  /\ issued[2].createdAt = 500000
  /\ expiredOut = {1}
  /\ DOMAIN stateStore = {2}
  /\ getStateData(stateStore, 2, now).ret = issued[2].data

\* C9 (retrieval does not consume): a lookup that returns the payload leaves
\* the store as it was, and a lookup of the same token that follows it
\* within the TTL returns the same payload.
C9_GetKeeps ==
  [][\A state \in Known, n \in Times :
       /\ (CallGetStateData(state, n) /\ lastOp'.branch = "found")
          => stateStore' = stateStore
       /\ (/\ lastOp.op = "get"
           /\ lastOp.state = state
           /\ lastOp.branch = "found"
           /\ CallGetStateData(state, n)
           /\ n - issued[state].createdAt <= STATE_EXPIRATION_MS)
          => lastOp'.ret = lastOp.ret]_vars

\* C9 witness: MaxRepeat successive lookups of one token returned its payload
\* and the entry is still there.
C9_Witness ==
  /\ LastGet
  /\ lastOp.branch = "found"
  /\ lastOp.nth = MaxRepeat
  /\ lastOp.state \in DOMAIN stateStore
  /\ stateStore[lastOp.state].data = lastOp.ret

\* C10 (unknown token): a lookup of a string that is no key of the store,
\* a UUID or not, returns null, raises nothing and leaves the store as it
\* was.
C10_UnknownToken ==
  [][\A state \in Known, n \in Times :
       (CallGetStateData(state, n) /\ state \notin DOMAIN stateStore)
       => /\ lastOp'.ret = Null
          /\ lastOp'.branch = "unknown"
          /\ stateStore' = stateStore]_vars

\* C10 witness: a string that is no UUID was looked up in a non-empty store
\* and null came back.
C10_Witness ==
  /\ LastGet
  /\ lastOp.state = NonUUID
  /\ lastOp.ret = Null
  /\ lastOp.branch = "unknown"
  /\ stateStore # EmptyMap

Range(seq) == {seq[i] : i \in 1 .. Len(seq)}

IsCallback(call) == call.handler \in {"githubCallback", "googleCallback"}

\* the request of the last handler step passed state validation
Validated(call) == IsCallback(call) /\ call.status \notin {400, 401}

\* C5: a callback that carries a code and a state for which getStateData
\* returns null (never issued, consumed or expired) is answered 401, makes no
\* request to the token endpoint and is not suspended.
C5_RejectUnknown ==
  [][\A p \in Providers, state \in Known, envComplete \in BOOLEAN,
        n \in RequestTimes :
       (/\ Callback(p, TRUE, state, envComplete, n)
        /\ getStateData(stateStore, state, n).ret = Null)
       => /\ lastCall'.status = 401
          /\ "fetchToken" \notin Range(lastCall'.log)
          /\ inflight' = inflight
          /\ accepted' = accepted]_vars

\* C5 witness: the Google callback got the state of an entry past its TTL
\* and answered 401 while the environment was complete.
C5_Witness ==
  /\ lastCall.handler = "googleCallback"
  /\ lastCall.status = 401
  /\ lastCall.log = <<"getStateData", "respond">>
  /\ lastCall.state \in lazyOut
  /\ lastOp = Op("get", lastCall.state, Null, "expired", 0)
  /\ inflight = [i \in 1 .. MaxInFlight |-> Idle]

SideEffects == {"envCheck", "fetchToken", "fetchUser", "fetchEmails",
                "respond"}

\* C6: in every callback that passed state validation, deleteStateData is
\* the effect right after getStateData, and the environment check, the
\* provider requests and the response all come after it.
C6_DeleteFirst ==
  Validated(lastCall)
  => /\ Len(lastCall.log) >= 2
     /\ lastCall.log[1] = "getStateData"
     /\ lastCall.log[2] = "deleteStateData"
     /\ \A j \in 1 .. Len(lastCall.log) :
          lastCall.log[j] \in SideEffects => j > 2
     /\ lastCall.state \notin DOMAIN stateStore

\* C6 witness: a GitHub callback ran to its 200 response through all three
\* provider requests.
C6_Witness ==
  /\ lastCall.handler = "githubCallback"
  /\ lastCall.status = 200
  /\ lastCall.log = <<"getStateData", "deleteStateData", "envCheck",
                      "fetchToken", "fetchUser", "fetchEmails", "respond">>
  /\ lastCall.state \in deleted

\* C7: a callback passes state validation only if its state was returned by
\* an earlier createState (here always that of a redirect handler), is
\* within its TTL and has validated no callback before; a state that has
\* validated a callback gets 401 from then on.
C7_NoForgeryNoReplay ==
  [][\A p \in Providers, state \in Known, envComplete \in BOOLEAN,
        n \in RequestTimes :
       /\ (Callback(p, TRUE, state, envComplete, n) /\ Validated(lastCall'))
          => /\ state \in DOMAIN issued
             /\ n - issued[state].createdAt <= STATE_EXPIRATION_MS
             /\ Count(state) = 0
       /\ (Callback(p, TRUE, state, envComplete, n) /\ Count(state) > 0)
          => lastCall'.status = 401
       /\ \A t \in DOMAIN accepted' : accepted'[t] = 1]_vars

\* C7 witness: a state that validated one callback came back within its TTL,
\* no expiry having touched it, and the second callback got 401.
C7_Witness ==
  /\ IsCallback(lastCall)
  /\ lastCall.status = 401
  /\ lastCall.state \in DOMAIN accepted
  /\ accepted[lastCall.state] = 1
  /\ lastCall.state \notin expiredOut \cup lazyOut
  /\ now - issued[lastCall.state].createdAt <= STATE_EXPIRATION_MS

\* C11 (idempotent delete): deleteStateData of a token that is no key leaves
\* the store as it was and takes the not-an-error branch; after any
\* deleteStateData(t) the token is no key and a second deleteStateData(t)
\* changes nothing.
C11_DeleteIdempotent ==
  [][\A state \in Known :
       CallDeleteStateData(state)
       => /\ state \notin DOMAIN stateStore
             => (stateStore' = stateStore /\ lastOp'.branch = "absent")
          /\ state \notin DOMAIN stateStore'
          /\ deleteStateData(stateStore', state) = stateStore']_vars

\* C11 witness: a token already removed by deleteStateData was deleted again
\* while another entry was in the store.
C11_Witness ==
  /\ lastOp.op = "delete"
  /\ lastOp.branch = "absent"
  /\ lastOp.state \in deleted
  /\ lastOp.state \notin expiredOut \cup lazyOut
  /\ stateStore # EmptyMap

\* C12: the value a lookup returns is the same null for a string never
\* issued, for a token deleteStateData was called with and for an entry
\* past its TTL.
C12_NotFoundSame ==
  [][\A state \in Known, n \in Times :
       (/\ CallGetStateData(state, n)
        /\ \/ state \notin DOMAIN issued
           \/ state \in deleted
           \/ /\ state \in DOMAIN stateStore
              /\ n - stateStore[state].createdAt > STATE_EXPIRATION_MS)
       => lastOp'.ret = Null]_vars

\* C12 witness: a lookup found its entry past the TTL and returned null, in
\* a run where another token had been deleted.
C12_Witness ==
  /\ LastGet
  /\ lastOp.branch = "expired"
  /\ lastOp.ret = Null
  /\ lastOp.state \notin deleted
  /\ deleted # {}

\* C13: after every step of every interleaving of create, get, delete and
\* sweep, the store holds exactly the entries created and not removed by a
\* delete, an expired lookup or a sweep, each with the payload and createdAt
\* it was created with.
C13_StoreIntact ==
  /\ DOMAIN stateStore = DOMAIN issued \ (deleted \cup expiredOut \cup lazyOut)
  /\ \A t \in DOMAIN stateStore : stateStore[t] = issued[t]

\* C13 witness: an older entry survived the createState of a later one, which
\* has since been removed.
C13_Witness ==
  /\ 1 \in DOMAIN stateStore
  /\ 2 \in DOMAIN issued
  /\ 2 \notin DOMAIN stateStore
  /\ issued[2].createdAt # issued[1].createdAt

\* C14 (known race of get and delete): while one caller is between its
\* getStateData(t) and its deleteStateData(t), a getStateData(t) of another
\* caller, for a token nobody deleted and no expiry removed, read within the
\* TTL, returns the payload as well and leaves the entry in the store.
C14_SecondGetSucceeds ==
  [][\A c \in 1 .. MaxCallers, state \in Known, n \in RequestTimes :
       (/\ CallerGet(c, state, n)
        /\ \E d \in 1 .. MaxCallers :
             /\ d # c
             /\ callers[d].pc = "processing"
             /\ callers[d].state = state
        /\ state \notin deleted \cup expiredOut \cup lazyOut
        /\ n - issued[state].createdAt <= STATE_EXPIRATION_MS)
       => /\ callers'[c].pc = "processing"
          /\ callers'[c].data = issued[state].data
          /\ Has(stateStore', state)]_vars

\* C14 witness: two callers hold the payload of the same token, and the
\* token is still in the store, neither of them having deleted it.
C14_Witness ==
  \E c \in 1 .. MaxCallers, d \in 1 .. MaxCallers :
    /\ c # d
    /\ callers[c].pc = "processing"
    /\ callers[d].pc = "processing"
    /\ callers[c].state = callers[d].state
    /\ callers[c].data = RedirectUriData
    /\ callers[d].data = RedirectUriData
    /\ callers[c].state \in DOMAIN stateStore
    /\ callers[c].state \notin deleted

\* C15 as stated (no store operation writes to the console): the console
\* of the last store step is always empty.
C15_NoConsoleAsStated == console = <<>>

\* the tokens of the console lines of the step
ConsoleTokens(lines) == {lines[i].state : i \in 1 .. Len(lines)}

\* the lines of a sweep that removed the set `removed`: one console.log per
\* removed entry, with its token
SweepLines(lines, removed) ==
  /\ Len(lines) = Cardinality(removed)
  /\ ConsoleTokens(lines) = removed
  /\ \A i \in 1 .. Len(lines) :
       lines[i].level = "log" /\ lines[i].text = "Expired state removed"

\* C15 (what the store writes): NotFound and expiry reach the caller only as
\* the return value null, but the store does write to the console, token
\* included: createState one log line with the new token after the lines of
\* its sweep, a sweep one log line per entry it removes, deleteStateData one
\* log line when it deleted and one warning when the token was absent,
\* getStateData one warning when it returns null (unknown and expired with
\* different texts) and nothing when it returns the payload.
C15_ConsoleLines ==
  [][LET removed == DOMAIN stateStore \ DOMAIN stateStore'
         lines == console'
         op == lastOp'
     IN /\ op.op = "sweep" => SweepLines(lines, removed)
        /\ op.op = "create" =>
             /\ Len(lines) >= 1
             /\ lines[Len(lines)] = Line("log", "State created", op.ret)
             /\ SweepLines(SubSeq(lines, 1, Len(lines) - 1), removed)
        /\ op.op = "delete" =>
             lines = IF op.branch = "deleted"
                       THEN <<Line("log", "State deleted", op.state)>>
                       ELSE <<Line("warn",
                                   "Attempted to delete non-existent state",
                                   op.state)>>
        /\ op.op = "get" =>
             /\ op.branch = "found" => (lines = <<>> /\ op.ret # Null)
             /\ op.branch = "unknown" =>
                  /\ op.ret = Null
                  /\ lines = <<Line("warn",
                                    "Invalid or unknown state received",
                                    op.state)>>
             /\ op.branch = "expired" =>
                  /\ op.ret = Null
                  /\ lines = <<Line("warn", "Expired state received",
                                    op.state)>>]_vars

\* C15 witness: a createState whose sweep removed an entry wrote two lines,
\* the removed token and the new token.
C15_Witness ==
  /\ lastOp.op = "create"
  /\ Len(console) = 2
  /\ console[1].state \in expiredOut
  /\ console[2].state = lastOp.ret
  /\ console[2].state \in DOMAIN stateStore

\* C16 (redirect step): a getGithubRedirectUrl / getGoogleRedirectUrl call
\* with client id and redirect URI configured answers 302 after exactly one
\* createState with the payload {redirectUri}; the state parameter of its
\* URL is the token that createState returned, the one new key of the store,
\* which is in the store when the response is returned.
C16_RedirectCreatesState ==
  [][\A provider \in Providers, n1 \in RequestTimes, n2 \in RequestTimes :
       Redirect(provider, TRUE, n1, n2)
       => /\ lastCall'.status = 302
          /\ lastCall'.log = <<"createState", "respond">>
          /\ uuidCount' = uuidCount + 1
          /\ lastOp'.op = "create"
          /\ lastCall'.state = lastOp'.ret
          /\ DOMAIN issued' = DOMAIN issued \cup {lastCall'.state}
          /\ lastCall'.state \notin DOMAIN issued
          /\ Has(stateStore', lastCall'.state)
          /\ stateStore'[lastCall'.state] =
               [data |-> RedirectUriData, createdAt |-> n2]]_vars

\* C16 witness: the last request was a redirect answered 302 whose state
\* parameter is a key of the store holding {redirectUri}.
C16_Witness ==
  /\ lastCall.handler \in {"githubRedirect", "googleRedirect"}
  /\ lastCall.status = 302
  /\ lastOp.op = "create"
  /\ lastCall.state = lastOp.ret
  /\ Has(stateStore, lastCall.state)
  /\ stateStore[lastCall.state].data = RedirectUriData

\* C17 (JWT middleware): a request without Authorization header, or whose
\* header is empty or exactly 'Bearer ', and a request whose token verifyFn
\* rejected, is answered 401 without next() having been invoked; when
\* verifyFn resolved, next() was invoked exactly once, and the context held
\* the payload under 'jwtPayload' at that invocation.
C17_JwtGate ==
  \A r \in 1 .. MaxJwt :
    LET q == jwt[r]
    IN /\ q.nextCalls <= 1
       /\ (/\ q.pc # "idle"
           /\ \/ ~q.header.present
              \/ q.header.value \in {<<>>, Bearer})
          => /\ q.pc = "done"
             /\ q.response = 401
             /\ q.nextCalls = 0
             /\ q.verify = "none"
       /\ q.verify = "rejected"
          => /\ q.pc = "done"
             /\ q.response = 401
             /\ q.nextCalls = 0
             /\ q.jwtPayload = JwtUnset
       /\ q.verify = "resolved"
          => /\ q.nextCalls = 1
             /\ q.payload \in JwtPayloads
             /\ q.seen = q.payload
             /\ q.jwtPayload = q.payload
       /\ q.nextCalls = 1 => q.verify = "resolved"

\* C17 witness: a request with a verified token is through next(), and a
\* request whose token verifyFn rejected has its 401.
C17_Witness ==
  \E r \in 1 .. MaxJwt, q \in 1 .. MaxJwt :
    /\ jwt[r].header = Header(<<"a">> \o Bearer)
    /\ jwt[r].pc = "done"
    /\ jwt[r].verify = "resolved"
    /\ jwt[r].nextCalls = 1
    /\ jwt[r].response = 0
    /\ jwt[q].pc = "done"
    /\ jwt[q].verify = "rejected"
    /\ jwt[q].response = 401

\* C18 (bounded retry): one enhancedFetch call with retry.count = n issues
\* at most n + 1 fetch attempts, whatever way the attempts fail.
C18_BoundedRetryAsStated == ef.attempts <= ef.retry.count + 1

\* C19 (timeout on every attempt): an attempt, the first one or a retry,
\* that is pending when its timer goes off is aborted: the signal its fetch
\* was given is aborted.
C19_TimeoutEveryAttemptAsStated ==
  (ef.pc = "fetching" /\ ef.timer = "fired") => ef.signal \in ef.aborted

\* C20 (exponential backoff by default): the wait before the k-th retry
\* (k = 0, 1, ...) is delay * 2^k unless exponentialBackoff is false, and
\* the constant delay when it is false.
C20_BackoffDefaultAsStated ==
  \A k \in 1 .. Len(ef.waits) :
    ef.waits[k] = IF ef.retry.exponentialBackoff = "false"
                    THEN ef.retry.delay
                    ELSE ef.retry.delay * pow2(k - 1)

\* C21 (user abort): once abort() was called during an enhancedFetch call,
\* the call makes no further fetch attempt, and when it settles it rejects
\* with an error named AbortError.
C21_UserAbortAsStated ==
  ef.userAborted
  => /\ ef.attempts = ef.abortedAt
     /\ ef.pc \in {"resolved", "rejected"}
        => (ef.pc = "rejected" /\ ef.error = "AbortError")

\* C22 (concurrency limit): the number of loads in flight never exceeds
\* `concurrency`.
C22_ConcurrencyLimitAsStated ==
  rl.mounted => BagCardinality(rl.tasks) <= rl.concurrency

\* the weight the claims give a resource: 1 when it is left out
ClaimedWeight(resource) ==
  IF resource.weight = NoWeight THEN 1 ELSE resource.weight

RECURSIVE SumOfWeights(_, _)
SumOfWeights(resources, among) ==
  IF among = {} THEN 0
  ELSE LET i == CHOOSE j \in among : TRUE
       IN ClaimedWeight(resources[i]) + SumOfWeights(resources, among \ {i})

\* C23 (progress): progress is between 0 and 100 and equals 100 times the
\* weight of the resources loaded successfully over the weight of all
\* resources.
C23_ProgressAsStated ==
  rl.mounted
  => /\ 0 <= rl.progress.num
     /\ rl.progress.num <= 100 * rl.progress.den
     /\ rl.progress.num * SumOfWeights(rl.resources, DOMAIN rl.resources)
          = 100 * SumOfWeights(rl.resources, rl.okLoaded) * rl.progress.den

\* C24 (completion): isComplete is true only when every resource of the
\* list has finished, and onLoaded is invoked once per run, when the run
\* is complete.
C24_CompletionAsStated ==
  /\ rl.isComplete => rl.finished = DOMAIN rl.resources
  /\ rl.isComplete => rl.onLoadedCalls = 1
  /\ rl.onLoadedCalls <= 1
  /\ rl.onLoadedCalls = 1 => rl.finished = DOMAIN rl.resources

\* C25 (no restart): no resource is loaded twice within one run.
C25_NoRestartAsStated ==
  \A i \in DOMAIN rl.started : rl.started[i] <= 1

\* C26: handleUpload writes a file only when the form field holds a file
\* whose MIME type allowedTypes accepts and whose size is at most maxSize
\* (a file of exactly maxSize bytes is written); when the field holds no
\* file, the type is not accepted or the file is too large, the response
\* is 400, nothing is written and no directory is created; an exception
\* gives 500.
ValidUpload ==
  /\ up.file.kind = "file"
  /\ up.file.type \in up.allowedTypes.accepts
  /\ up.file.size <= up.maxSize
C26_UploadValidationAsStated ==
  /\ up.files > up.filesBefore => ValidUpload
  /\ (up.pc = "done" /\ up.file # Unparsed /\ ~ValidUpload)
     => /\ up.status = 400
        /\ up.files = up.filesBefore
        /\ up.dirExists = up.dirBefore
  /\ (up.pc = "done" /\ ValidUpload /\ ~up.threw)
     => (up.status = 200 /\ up.files = up.filesBefore + 1)
  /\ up.threw => up.status = 500

\* C27: after mount, whenever isLoggedIn is false the token is null, across
\* any sequence of successful or failed logins and logouts, with or without
\* a stored token.
C27_SessionAsStated ==
  (wx.mounted /\ wx.isLoggedIn = "false") => wx.token = Null

\* C28: every invocation of fn belongs to one call of the debounced
\* function, has that call's arguments and the fn of its render, happens
\* delay after the call, and no later call was made within delay of it; no
\* call is invoked twice; a call followed by another one within delay is
\* never invoked, and the last call is invoked once its delay has passed,
\* also when the component rendered between the calls.
InvocationsOf(c) == {v \in DOMAIN db.invoked : db.invoked[v].call = c}
C28_Debounce ==
  /\ \A v \in DOMAIN db.invoked :
       LET inv == db.invoked[v]
           call == db.calls[inv.call]
       IN  /\ inv.call \in DOMAIN db.calls
           /\ inv.args = call.args
           /\ inv.fn = call.fn
           /\ inv.time = call.time + call.delay
           /\ \A later \in DOMAIN db.calls :
                later > inv.call
                => db.calls[later].time >= call.time + call.delay
  /\ \A c \in DOMAIN db.calls :
       /\ Cardinality(InvocationsOf(c)) <= 1
       /\ (c < Len(db.calls)
           /\ db.calls[c + 1].time < db.calls[c].time + db.calls[c].delay)
          => InvocationsOf(c) = {}
       /\ (c = Len(db.calls)
           /\ db.clock > db.calls[c].time + db.calls[c].delay)
          => Cardinality(InvocationsOf(c)) = 1

\* three calls, each within delay of the next and with a render between the
\* first and the last, ended in one invocation of fn with the last call's
\* arguments
C28_Witness ==
  /\ Len(db.calls) = 3
  /\ db.calls[1].fn # db.calls[3].fn
  /\ db.calls[1].args # db.calls[3].args
  /\ \A c \in 1 .. 2 :
       db.calls[c + 1].time < db.calls[c].time + db.calls[c].delay
  /\ db.calls[2].time > db.calls[1].time
  /\ Len(db.invoked) = 1
  /\ db.invoked[1].args = db.calls[3].args

\* the tokens issued that no deleteStateData call was given
Undeleted == DOMAIN issued \ deleted

\* C29 as stated: an entry that was not deleted is retrievable exactly while
\* now - createdAt <= TTL: a lookup returns its payload at every clock
\* reading up to createdAt + TTL, that reading included, and null at
\* createdAt + TTL + 1 and later.
C29_TTLBoundaryAsStated ==
  (LastGet /\ lastOp.state \in Undeleted)
  => (lastOp.ret = issued[lastOp.state].data
      <=> AgeAtLastRead(lastOp.state) <= STATE_EXPIRATION_MS)

\* the tokens whose entry no delete, no sweep and no expired lookup removed
Remaining == Undeleted \ (expiredOut \cup lazyOut)

\* C29 amended: the same for an entry that, besides not being deleted, was
\* not removed by a sweep or a lookup that read the clock past
\* createdAt + TTL (the clock can be set forward and back again); a sweep
\* keeps such an entry at every clock reading up to createdAt + TTL, that
\* reading included, and drops it at createdAt + TTL + 1 and later.
C29_TTLBoundary ==
  [][\A n \in Times :
       /\ \A state \in Remaining :
            CallGetStateData(state, n)
            => LET within ==
                     n - issued[state].createdAt <= STATE_EXPIRATION_MS
               IN  /\ (lastOp'.ret = issued[state].data) <=> within
                   /\ (lastOp'.ret = Null) <=> ~within
                   /\ Has(stateStore', state) <=> within
       /\ CallClearExpired(n)
          => \A t \in Remaining :
               Has(stateStore', t)
               <=> n - issued[t].createdAt <= STATE_EXPIRATION_MS]_vars

\* C29 witness: a sweep that read the clock exactly at createdAt + TTL of the
\* second entry kept it; a lookup at that reading returns its payload and
\* one a millisecond later does not; the first entry, created at the same
\* reading, went in a sweep past its TTL.
C29_Witness ==
  /\ lastOp.op = "sweep"
  /\ DOMAIN issued = {1, 2}
  /\ expiredOut = {1}
  /\ Remaining = {2}
  /\ issued[1].createdAt = issued[2].createdAt
  /\ now - issued[2].createdAt = STATE_EXPIRATION_MS
  /\ Has(stateStore, 2)
  /\ getStateData(stateStore, 2, now).ret = issued[2].data
  /\ getStateData(stateStore, 2, now + 1).ret = Null

\* C30: an entry leaves the store only in a deleteStateData call with its
\* token, in a getStateData call with its token that finds it expired, or
\* in a sweep, run directly or by createState, that finds it expired;
\* deleteStateData and getStateData leave every entry of another token in
\* the store as it was; no entry is changed while it stays.
C30_RemovalPaths ==
  [][/\ \A t \in DOMAIN stateStore :
          /\ Has(stateStore', t) => stateStore'[t] = stateStore[t]
          /\ ~Has(stateStore', t)
             => \/ CallDeleteStateData(t)
                \/ \E n \in Times :
                     /\ CallGetStateData(t, n)
                     /\ n - stateStore[t].createdAt > STATE_EXPIRATION_MS
                \/ \E n \in Times :
                     /\ CallClearExpired(n)
                     /\ n - stateStore[t].createdAt > STATE_EXPIRATION_MS
                \/ \E data \in Payloads, n1 \in Times, n2 \in Times :
                     /\ CallCreateState(data, n1, n2)
                     /\ n1 - stateStore[t].createdAt > STATE_EXPIRATION_MS
     /\ \A state \in Known \cup {NonUUID}, n \in Times :
          (CallGetStateData(state, n) \/ CallDeleteStateData(state))
          => \A u \in DOMAIN stateStore \ {state} : Has(stateStore', u)]_vars

\* C30 witness: of two entries one was removed by a deleteStateData call with
\* its token, the last call; the other, never swept and never found
\* expired, is in the store as created.
C30_Witness ==
  /\ lastOp.op = "delete"
  /\ lastOp.branch = "deleted"
  /\ DOMAIN issued = {1, 2}
  /\ deleted = {lastOp.state}
  /\ expiredOut = {}
  /\ lazyOut = {}
  /\ \E u \in DOMAIN stateStore :
       /\ DOMAIN stateStore = {u}
       /\ u # lastOp.state
       /\ stateStore[u] = issued[u]

\* C31 as stated: right after createState returned at clock reading now, the
\* store holds the new entry with createdAt = now and holds no entry with
\* now - createdAt > TTL.
C31_SweepBeforeInsertAsStated ==
  lastOp.op = "create"
  => /\ Has(stateStore, lastOp.state)
     /\ stateStore[lastOp.state].createdAt = now
     /\ \A t \in DOMAIN stateStore :
          now - stateStore[t].createdAt <= STATE_EXPIRATION_MS

\* C31 amended: createState reads the clock twice, for its sweep and for
\* createdAt. Right after it returned, the store holds the new entry, under
\* a key that was not in the store, with the payload given and createdAt =
\* the second reading, and no other entry that was older than TTL at the
\* first reading; when the two readings are equal, no entry at all is older
\* than TTL at that reading.
C31_SweepBeforeInsert ==
  [][\A data \in Payloads, n1 \in Times, n2 \in Times :
       (lastOp'.op = "create" /\ now' = n2 /\ CallCreateState(data, n1, n2))
       => LET new == lastOp'.state
          IN  /\ ~Has(stateStore, new)
              /\ Has(stateStore', new)
              /\ stateStore'[new] = [data |-> data, createdAt |-> n2]
              /\ \A t \in DOMAIN stateStore' \ {new} :
                   n1 - stateStore'[t].createdAt <= STATE_EXPIRATION_MS
              /\ n1 = n2
                 => \A t \in DOMAIN stateStore' :
                      n2 - stateStore'[t].createdAt
                        <= STATE_EXPIRATION_MS]_vars

\* C31 witness: the last call is a createState whose sweep removed the only
\* other entry, older than TTL, before the new entry went in with
\* createdAt = now.
C31_Witness ==
  /\ lastOp.op = "create"
  /\ lastOp.state = 2
  /\ console = <<Line("log", "Expired state removed", 1),
                 Line("log", "State created", 2)>>
  /\ DOMAIN stateStore = {2}
  /\ stateStore[2].createdAt = now
  /\ now - issued[1].createdAt > STATE_EXPIRATION_MS
  /\ lazyOut = {}
  /\ deleted = {}

\* the requests suspended at an await that carry the state token t
InFlightWith(t) ==
  {i \in 1 .. MaxInFlight : inflight[i] # Idle /\ inflight[i].state = t}

\* C32: the callback handlers look the state up and delete it in one step,
\* with no await in between: of the callbacks that carry one state token, in
\* flight at the same time or not, at most one passes state validation and
\* reaches the token request; a callback that arrives while another one
\* with its token is suspended at a provider request is answered 401 and
\* sends nothing to the provider.
C32_ExactlyOnceInHandlers ==
  [][/\ \A p \in Providers, state \in Known, envComplete \in BOOLEAN,
           n \in RequestTimes :
          /\ (/\ Validated(lastCall')
              /\ lastCall'.state = state
              /\ Callback(p, TRUE, state, envComplete, n))
             => /\ InFlightWith(state) = {}
                /\ Count(state) = 0
                /\ ~Has(stateStore', state)
                /\ lastCall'.log[1] = "getStateData"
                /\ lastCall'.log[2] = "deleteStateData"
          /\ (/\ InFlightWith(state) # {}
              /\ Callback(p, TRUE, state, envComplete, n))
             => /\ lastCall'.status = 401
                /\ lastCall'.log = <<"getStateData", "respond">>
                /\ inflight' = inflight
     /\ \A t \in Known :
          /\ Cardinality(InFlightWith(t)) <= 1
          /\ Count(t) <= 1]_vars

\* C32 witness: while a callback that passed validation is suspended at a
\* provider request, a second callback with the same state token, within the
\* TTL of the state, was answered 401.
C32_Witness ==
  /\ IsCallback(lastCall)
  /\ lastCall.status = 401
  /\ InFlightWith(lastCall.state) # {}
  /\ Count(lastCall.state) = 1
  /\ lastCall.state \notin expiredOut \cup lazyOut
  /\ now - issued[lastCall.state].createdAt <= STATE_EXPIRATION_MS

\* C33: a state that passed validation in a callback is out of the store
\* from that step on, whatever the handler does next (500 for a missing
\* client id, secret or redirect URI, a failed token or user-info request,
\* an exception, or 200): whenever a handler has returned for such a state
\* the entry is absent, and a new callback with it is answered 401 at every
\* clock reading, with or without the environment variables.
C33_ConsumedWhateverNext ==
  /\ \A t \in DOMAIN accepted :
       /\ ~Has(stateStore, t)
       /\ t \in deleted
       /\ \A envComplete \in BOOLEAN, n \in RequestTimes :
            LET e == callbackEntry(stateStore, TRUE, t, envComplete, n)
            IN  e.status = 401 /\ ~e.validated
  /\ (Validated(lastCall) /\ lastCall.status # 0)
     => /\ lastCall.state \in DOMAIN accepted
        /\ ~Has(stateStore, lastCall.state)

\* C33 witness: a callback passed validation and its token request failed:
\* the handler returned 500, and the state, still within its TTL and never
\* swept, is not in the store.
C33_Witness ==
  /\ IsCallback(lastCall)
  /\ lastCall.status = 500
  /\ lastCall.log = <<"getStateData", "deleteStateData", "envCheck",
                      "fetchToken", "respond">>
  /\ Count(lastCall.state) = 1
  /\ ~Has(stateStore, lastCall.state)
  /\ lastCall.state \notin expiredOut \cup lazyOut
  /\ now - issued[lastCall.state].createdAt <= STATE_EXPIRATION_MS

====
